---- MODULE Spec2Model ----
(***************************************************************************)
(* The scoping and transformation engine of srgn: Scope, ScopedViewBuilder *)
(* (new / explode / explode_from_ranges / explode_from_scoper / build),    *)
(* ScopedView (map, Display), the Action trait, and the HCL language       *)
(* scoper's capture names.                                                 *)
(*                                                                         *)
(* A string (&str, String) is a sequence of UTF-8 bytes.  A read-only      *)
(* scope is a record [tag, off, str]: `str` are the bytes of the borrowed  *)
(* slice and `off` is the byte offset of the slice in the input buffer     *)
(* (the slice's pointer).  A read-write scope adds `cow`.                  *)
(***************************************************************************)
EXTENDS Integers, Sequences, FiniteSets, TLC

VARIABLES
    input,      \* the input buffer handed to ScopedViewBuilder::new
    scopes,     \* ScopedViewBuilder.scopes (pc = "builder") / ScopedView.scopes (pc = "view")
    pc,         \* "builder" | "view" | "panicked"
    contract,   \* TRUE while every exploder so far returned scopes concatenating to its fragment
    calls,      \* the arguments the last operation passed to its callback (exploder / action)
    built,      \* the view's scopes as build() returned them
    applied,    \* the actions mapped over the view so far, in order
    ranges,     \* SpecRanges: the ranges the exploder returns
    query,      \* SpecHcl: the premade query of the language scoper
    captures    \* SpecHcl: the captures the query produced on the input

vars == <<input, scopes, pc, contract, calls, built, applied, ranges, query, captures>>

(***************************************************************************)
(* Bounds                                                                  *)
(***************************************************************************)
MaxLen == 3
MaxRanges == 2
MaxMaps == 2
MaxCaptures == 2

(***************************************************************************)
(* Strings                                                                 *)
(***************************************************************************)
\* The characters of the inputs: 'a' (one byte) and 'ß' (two bytes, C3 9F).
InputChars == { <<97>>, <<195, 159>> }

RECURSIVE Strs(_)
\* Every valid UTF-8 string over InputChars of at most n bytes.
Strs(n) ==
    {<<>>} \cup UNION { { c \o s : s \in Strs(n - Len(c)) } :
                         c \in { d \in InputChars : Len(d) <= n } }

RECURSIVE Concat(_)
\* The concatenation of a sequence of strings.
Concat(ss) == IF ss = <<>> THEN <<>> ELSE Head(ss) \o Concat(Tail(ss))

\* str::is_char_boundary: 0 and len are boundaries, as is every index whose
\* byte is not a UTF-8 continuation byte (0x80..0xBF).
is_char_boundary(s, i) ==
    \/ i = 0
    \/ i = Len(s)
    \/ i > 0 /\ i < Len(s) /\ ~(s[i + 1] \in 128..191)

\* Whether &s[a..b] returns (it panics otherwise).
SliceOk(s, a, b) ==
    /\ a <= b
    /\ b <= Len(s)
    /\ is_char_boundary(s, a)
    /\ is_char_boundary(s, b)

(***************************************************************************)
(* Scope algebra                                                           *)
(***************************************************************************)
In(off, str)  == [tag |-> "In",  off |-> off, str |-> str]
Out(off, str) == [tag |-> "Out", off |-> off, str |-> str]

\* &s[a..b] of the fragment held by scope s, as a scope with the given tag.
Slice(tag, s, a, b) ==
    [tag |-> tag, off |-> s.off + a, str |-> SubSeq(s.str, a + 1, b)]

is_empty(scope) == Len(scope.str) = 0

\* Vec::retain(|s| !s.is_empty())
RetainNonEmpty(ss) == SelectSeq(ss, LAMBDA s : ~is_empty(s))

\* From<ROScope> for RWScope
into(s) ==
    [tag |-> s.tag, cow |-> "Borrowed", off |-> s.off, str |-> s.str]

\* What #[derive(PartialEq)] compares: tags and string contents.
Content(ss) == [i \in 1..Len(ss) |-> <<ss[i].tag, ss[i].str>>]

(***************************************************************************)
(* ScopedViewBuilder                                                       *)
(***************************************************************************)
new(inp) == << In(0, inp) >>

build(ss) == [i \in 1..Len(ss) |-> into(ss[i])]

\* What an exploder call yields: it panics, or it returns a builder.
Panic == [panic |-> TRUE, scopes |-> <<>>]
Returns(ss) == [panic |-> FALSE, scopes |-> ss]

RECURSIVE explode_loop(_, _, _, _, _)
\* The loop of explode over self.scopes.drain(..): res[i] is what the
\* exploder yields when it is invoked on scopes[i].
explode_loop(ss, res, i, newv, called) ==
    IF i > Len(ss) THEN [panic |-> FALSE, scopes |-> newv, calls |-> called]
    ELSE IF is_empty(ss[i]) THEN explode_loop(ss, res, i + 1, newv, called)
    ELSE IF ss[i].tag = "In" THEN
        IF res[i].panic
        THEN [panic |-> TRUE, scopes |-> <<>>, calls |-> Append(called, i)]
        ELSE explode_loop(ss, res, i + 1,
                          newv \o RetainNonEmpty(res[i].scopes),
                          Append(called, i))
    ELSE explode_loop(ss, res, i + 1, Append(newv, ss[i]), called)

\* explode, had it not forwarded the Out scopes.
explode_dropping_out(ss, res) ==
    LET r == explode_loop(ss, res, 1, <<>>, <<>>)
    IN  [r EXCEPT !.scopes = SelectSeq(r.scopes, LAMBDA s : s.tag = "In")]

\* explode, had it invoked the exploder on every non-empty scope.
explode_invoking_on_out(ss, res) ==
    explode_loop([i \in 1..Len(ss) |-> [ss[i] EXCEPT !.tag = "In"]], res, 1, <<>>, <<>>)

explode(ss, res) == explode_loop(ss, res, 1, <<>>, <<>>)


RECURSIVE insert_by_start(_, _)
\* Stable insertion of r into a list sorted by start: after every element
\* whose start is not greater.
insert_by_start(sorted, r) ==
    IF sorted = <<>> THEN <<r>>
    ELSE IF Head(sorted).start <= r.start
         THEN <<Head(sorted)>> \o insert_by_start(Tail(sorted), r)
         ELSE <<r>> \o sorted

\* The sort, had it been left out.
unsorted(rs) == rs

RECURSIVE sorted_by_key(_)
\* Itertools::sorted_by_key(|r| r.start): a stable sort on the start alone.
sorted_by_key(rs) ==
    IF rs = <<>> THEN <<>>
    ELSE insert_by_start(sorted_by_key(SubSeq(rs, 1, Len(rs) - 1)), rs[Len(rs)])

RECURSIVE ranges_loop(_, _, _, _)
\* The for loop of explode_from_ranges' closure over the sorted ranges, then
\* the trailing Out, then retain.
ranges_loop(s, sorted, last_end, acc) ==
    IF sorted = <<>> THEN
        Returns(RetainNonEmpty(
            IF last_end < Len(s.str)
            THEN Append(acc, Slice("Out", s, last_end, Len(s.str)))
            ELSE acc))
    ELSE LET r == Head(sorted) IN
        IF ~SliceOk(s.str, last_end, r.start) THEN Panic
        ELSE IF ~SliceOk(s.str, r.start, r.end) THEN Panic
        ELSE ranges_loop(s, Tail(sorted), r.end,
                         acc \o << Slice("Out", s, last_end, r.start),
                                   Slice("In", s, r.start, r.end) >>)

\* The closure explode_from_ranges hands to explode: s is the fragment, rs
\* the ranges the caller's exploder returned for it.
ranges_closure(s, rs) == ranges_loop(s, sorted_by_key(rs), 0, <<>>)

\* Whether explode invokes the exploder on this scope.
Invoked(scope) == ~is_empty(scope) /\ scope.tag = "In"

explode_from_ranges(ss, rch) ==
    explode(ss, [i \in 1..Len(ss) |->
                    IF Invoked(ss[i]) THEN ranges_closure(ss[i], rch[i]) ELSE Panic])

(***************************************************************************)
(* ScopedView and actions                                                  *)
(***************************************************************************)
RECURSIVE chars(_)
\* str::chars: the code points of a UTF-8 string of one- to three-byte
\* characters.
chars(s) ==
    IF s = <<>> THEN <<>>
    ELSE IF s[1] < 128 THEN <<s[1]>> \o chars(SubSeq(s, 2, Len(s)))
    ELSE IF s[1] < 224
    THEN <<(s[1] - 192) * 64 + (s[2] - 128)>> \o chars(SubSeq(s, 3, Len(s)))
    ELSE <<(s[1] - 224) * 4096 + (s[2] - 128) * 64 + (s[3] - 128)>>
             \o chars(SubSeq(s, 4, Len(s)))

\* char::encode_utf8, for code points below U+10000.
encode_utf8(c) ==
    IF c < 128 THEN <<c>>
    ELSE IF c < 2048 THEN <<192 + (c \div 64), 128 + (c % 64)>>
    ELSE <<224 + (c \div 4096), 128 + ((c \div 64) % 64), 128 + (c % 64)>>

\* char::to_uppercase (Unicode's full mapping, one character to one or more)
\* on Basic Latin, Latin-1, U+0149 and the Cyrillic block; every other
\* character of the model is upper case or has no case and maps to itself.
char_to_uppercase(c) ==
    IF c \in 97..122 THEN <<c - 32>>
    ELSE IF c = 223 THEN <<83, 83>>
    ELSE IF c \in 224..254 /\ c # 247 THEN <<c - 32>>
    ELSE IF c = 255 THEN <<376>>
    ELSE IF c = 329 THEN <<700, 78>>
    ELSE IF c \in 1072..1103 THEN <<c - 32>>
    ELSE IF c \in 1104..1119 THEN <<c - 80>>
    ELSE <<c>>

\* str::to_uppercase: every character is replaced by its upper-case mapping.
to_uppercase(s) ==
    LET cs == chars(s)
        up(c) == LET m == char_to_uppercase(c)
                 IN  Concat([j \in 1..Len(m) |-> encode_utf8(m[j])])
    IN  Concat([i \in 1..Len(cs) |-> up(cs[i])])

RECURSIVE replace_sz(_)
\* str::replace('ß', "ẞ"): C3 9F becomes E1 BA 9E.
replace_sz(s) ==
    IF Len(s) >= 2 /\ s[1] = 195 /\ s[2] = 159
    THEN <<225, 186, 158>> \o replace_sz(SubSeq(s, 3, Len(s)))
    ELSE IF s = <<>> THEN <<>>
    ELSE <<s[1]>> \o replace_sz(Tail(s))

\* substitute, had it upper-cased without replacing the sharp s first.
substitute_by_to_uppercase(s) == to_uppercase(s)

\* UpperStage::substitute
substitute(s) == to_uppercase(replace_sz(s))

\* Upper: act is the upper-casing of UpperStage.
Upper_act(s) == substitute(s)

\* Deletion: act returns the empty string.
Deletion_act(s) == <<>>

\* An action that is not idempotent: it appends 'a' to its input.
Append_act(s) == s \o <<97>>

\* The actions the driver maps over a view.
ActionSet == {"upper", "delete", "append"}

\* Action::act, dispatched on the action.
act(a, s) ==
    CASE a = "upper"  -> Upper_act(s)
      [] a = "delete" -> Deletion_act(s)
      [] a = "append" -> Append_act(s)

\* map, had it applied f to the Out scopes as well.
map_every_scope(ss, a) ==
    [i \in 1..Len(ss) |-> [ss[i] EXCEPT !.str = act(a, ss[i].str)]]

\* map, had it left the payloads an earlier action produced alone.
map_borrowed_only(ss, a) ==
    [i \in 1..Len(ss) |->
        IF ss[i].tag = "In" /\ ss[i].cow = "Borrowed"
        THEN [tag |-> "In", cow |-> "Owned", off |-> 0, str |-> act(a, ss[i].str)]
        ELSE ss[i]]

\* ScopedView::map with f = |s| a.act(s)
map(ss, a) ==
    [i \in 1..Len(ss) |->
        IF ss[i].tag = "In"
        THEN [tag |-> "In", cow |-> "Owned", off |-> 0, str |-> act(a, ss[i].str)]
        ELSE ss[i]]

\* The arguments map passes to f, in order.
map_calls(ss) == SelectSeq(ss, LAMBDA s : s.tag = "In")

Strings_of_in(ss) ==
    LET ins == SelectSeq(ss, LAMBDA s : s.tag = "In")
    IN  [i \in 1..Len(ins) |-> ins[i].str]

\* Display, had it written the In scopes only.
fmt_in_scopes_only(ss) ==
    Concat(Strings_of_in(ss))

\* impl Display for ScopedView
fmt(ss) == Concat([i \in 1..Len(ss) |-> ss[i].str])

(***************************************************************************)
(* The exploders the driver may hand to explode                            *)
(***************************************************************************)
RECURSIVE Product(_)
\* Every sequence that takes its i-th element from the i-th set.
Product(sets) ==
    IF sets = <<>> THEN {<<>>}
    ELSE { <<h>> \o t : h \in Head(sets), t \in Product(Tail(sets)) }

Tags == {"In", "Out"}

Boundaries(s) == { i \in 0..Len(s) : is_char_boundary(s, i) }

\* What an exploder may return for fragment f: f whole, f with an empty
\* scope in front or behind, f split in two inside, and, breaking the
\* contract, one part of a split alone or nothing.
ExploderScopes(f) ==
    LET n == Len(f.str)
        whole  == { << Slice(t, f, 0, n) >> : t \in Tags }
        padded == { << Slice("In", f, 0, 0), Slice(t, f, 0, n) >> : t \in Tags }
                    \cup { << Slice(t, f, 0, n), Slice("Out", f, n, n) >> : t \in Tags }
        splits == { << Slice(t[1], f, 0, c), Slice(t[2], f, c, n) >> :
                    t \in Tags \X Tags, c \in Boundaries(f.str) \ {0, n} }
    IN  whole \cup padded \cup splits \cup { <<p[1]>> : p \in splits }
              \cup { <<p[2]>> : p \in splits } \cup { <<>> }

\* The ranges an exploder may return for string s: at most MaxRanges, in any
\* order, possibly overlapping, empty or reversed.
RangeSet(s) == { [start |-> a, end |-> b] : a \in 0..Len(s), b \in 0..Len(s) }

RECURSIVE Lists(_, _)
Lists(S, n) ==
    IF n = 0 THEN {<<>>}
    ELSE Lists(S, n - 1) \cup { Append(l, x) : l \in { m \in Lists(S, n - 1) : Len(m) = n - 1 }, x \in S }

RangeLists(s) == Lists(RangeSet(s), MaxRanges)

Compliant(ss, res) ==
    \A i \in 1..Len(ss) :
        Invoked(ss[i]) =>
            /\ ~res[i].panic
            /\ Concat([j \in 1..Len(res[i].scopes) |-> res[i].scopes[j].str]) = ss[i].str

(***************************************************************************)
(* The pipeline                                                            *)
(***************************************************************************)
NoQuery == "none"

Init ==
    /\ input \in Strs(MaxLen)
    /\ scopes = new(input)
    /\ pc = "builder"
    /\ contract = TRUE
    /\ calls = <<>>
    /\ built = <<>>
    /\ applied = <<>>
    /\ ranges = <<>>
    /\ query = NoQuery
    /\ captures = <<>>

\* The builder after an explode whose exploder yielded res.
Exploded(r, ok) ==
    /\ pc' = IF r.panic THEN "panicked" ELSE "builder"
    /\ scopes' = r.scopes
    /\ calls' = [i \in 1..Len(r.calls) |-> scopes[r.calls[i]]]
    /\ contract' = (contract /\ ok)
    /\ UNCHANGED <<input, built, applied, ranges, query, captures>>

Explode ==
    /\ pc = "builder"
    /\ \E res \in Product([i \in 1..Len(scopes) |->
                    IF Invoked(scopes[i])
                    THEN { Returns(p) : p \in ExploderScopes(scopes[i]) }
                    ELSE {Panic}]) :
          Exploded(explode(scopes, res), Compliant(scopes, res))

\* The exploder is any function from fragments to lists of ranges; what the
\* closure of explode_from_ranges yields on fragment f for some such list.
RangeOutcomes(f) == { ranges_closure(f, rs) : rs \in RangeLists(f.str) }

ExplodeFromRanges ==
    /\ pc = "builder"
    /\ \E res \in Product([i \in 1..Len(scopes) |->
                    IF Invoked(scopes[i]) THEN RangeOutcomes(scopes[i]) ELSE {Panic}]) :
          Exploded(explode(scopes, res), Compliant(scopes, res))

Build ==
    /\ pc = "builder"
    /\ pc' = "view"
    /\ scopes' = build(scopes)
    /\ built' = build(scopes)
    /\ calls' = <<>>
    /\ UNCHANGED <<input, contract, applied, ranges, query, captures>>

Map ==
    /\ pc = "view"
    /\ Len(applied) < MaxMaps
    /\ \E a \in ActionSet :
          /\ scopes' = map(scopes, a)
          /\ applied' = Append(applied, a)
          /\ calls' = map_calls(scopes)
    /\ UNCHANGED <<input, pc, contract, built, ranges, query, captures>>

Next == Explode \/ ExplodeFromRanges \/ Build \/ Map

Spec == Init /\ [][Next]_vars

(***************************************************************************)
(* explode_from_ranges as a function of the fragment and of the ranges     *)
(***************************************************************************)
InitRanges ==
    /\ input \in Strs(MaxLen)
    /\ ranges \in RangeLists(input)
    /\ scopes = new(input)
    /\ pc = "builder"
    /\ contract = TRUE
    /\ calls = <<>>
    /\ built = <<>>
    /\ applied = <<>>
    /\ query = NoQuery
    /\ captures = <<>>

\* builder.explode_from_ranges(|_| ranges)
ExplodeFromGivenRanges ==
    /\ pc = "builder"
    /\ LET rch == [i \in 1..Len(scopes) |-> ranges]
           res == [i \in 1..Len(scopes) |->
                     IF Invoked(scopes[i]) THEN ranges_closure(scopes[i], rch[i]) ELSE Panic]
       IN  Exploded(explode_from_ranges(scopes, rch), Compliant(scopes, res))

NextRanges == ExplodeFromGivenRanges \/ Build

SpecRanges == InitRanges /\ [][NextRanges]_vars

(***************************************************************************)
(* The HCL language scoper                                                 *)
(***************************************************************************)
\* langs::IGNORE, the ignore marker of capture names.
IGNORE == << "_" >>

declaration == << ".", "d", "e", "c", "l", "a", "r", "a", "t", "i", "o", "n" >>
usage == << ".", "u", "s", "a", "g", "e" >>
type == << ".", "t", "y", "p", "e" >>
name == << "n", "a", "m", "e" >>

\* The capture, had it been given a plain name: "@name<suffix>".
named_capture(suffix) == name \o suffix

\* formatcp!("@{0}<suffix>", IGNORE): the name of a capture that only
\* anchors a pattern or feeds a predicate.
ignored_capture(suffix) == IGNORE \o suffix

\* The captures of the premade queries: the capture's name and the node of
\* the pattern it is attached to.
PremadeHclQuery ==
    [ Variables |->
        { [name |-> ignored_capture(declaration), node |-> "block.identifier"],
          [name |-> name \o declaration,          node |-> "block.string_lit"],
          [name |-> ignored_capture(usage),       node |-> "variable_expr.identifier"],
          [name |-> name \o usage,                node |-> "get_attr.identifier"] },
      ResourceTypes |->
        { [name |-> ignored_capture(declaration), node |-> "block.identifier"],
          [name |-> name \o type,                 node |-> "block.string_lit"],
          [name |-> name \o usage,                node |-> "variable_expr.identifier"] } ]

HclQueries == DOMAIN PremadeHclQuery

starts_with(s, prefix) ==
    Len(s) >= Len(prefix) /\ SubSeq(s, 1, Len(prefix)) = prefix

\* LanguageScoper::scope_via_query: the byte ranges of the captures whose
\* name does not start with the ignore marker.
scope_via_query(cs) ==
    LET kept == SelectSeq(cs, LAMBDA c : ~starts_with(c.name, IGNORE))
    IN  [i \in 1..Len(kept) |-> [start |-> kept[i].start, end |-> kept[i].end]]

\* ROScopes::from_raw_ranges: the range-to-scope conversion.
from_raw_ranges(s, rs) == ranges_closure(s, rs)

\* impl Scoper for Hcl: scope, on fragment s where the query captured cs.
Hcl_scope(s, cs) == from_raw_ranges(s, scope_via_query(cs))

\* The nodes a query may capture in string s: non-empty, on character
\* boundaries.
NodeRanges(s) ==
    { r \in RangeSet(s) : r.start < r.end /\ SliceOk(s, r.start, r.end) }

\* The captures a query may produce on s, in the order of their start.
CaptureLists(q, s) ==
    LET one == { [name |-> c.name, node |-> c.node, start |-> r.start, end |-> r.end] :
                 c \in PremadeHclQuery[q], r \in NodeRanges(s) }
    IN  { l \in Lists(one, MaxCaptures) :
            \A i \in 1..(Len(l) - 1) : l[i].start <= l[i + 1].start }

InitHcl ==
    /\ input \in Strs(MaxLen)
    /\ query \in HclQueries
    /\ captures \in CaptureLists(query, input)
    /\ scopes = new(input)
    /\ pc = "builder"
    /\ contract = TRUE
    /\ calls = <<>>
    /\ built = <<>>
    /\ applied = <<>>
    /\ ranges = <<>>

\* builder.explode_from_scoper(&Hcl): the parse of the whole input yields
\* `captures`; ranges records what the scoper hands to from_raw_ranges.
ExplodeFromScoper ==
    /\ pc = "builder"
    /\ scopes = new(input)
    /\ LET res == [i \in 1..Len(scopes) |->
                     IF Invoked(scopes[i]) THEN Hcl_scope(scopes[i], captures) ELSE Panic]
           r == explode(scopes, res)
       IN  /\ pc' = IF r.panic THEN "panicked" ELSE "builder"
           /\ scopes' = r.scopes
           /\ calls' = [i \in 1..Len(r.calls) |-> scopes[r.calls[i]]]
           /\ contract' = (contract /\ Compliant(scopes, res))
           /\ ranges' = scope_via_query(captures)
    /\ UNCHANGED <<input, built, applied, query, captures>>

NextHcl == ExplodeFromScoper \/ Build

SpecHcl == InitHcl /\ [][NextHcl]_vars

(***************************************************************************)
(* Properties                                                              *)
(***************************************************************************)
Strings(ss) == [i \in 1..Len(ss) |-> ss[i].str]

\* The byte positions of the input (1-based) that the scopes of a tag hold.
Pos(ss, tag) ==
    UNION { (ss[i].off + 1)..(ss[i].off + Len(ss[i].str)) :
            i \in { j \in 1..Len(ss) : ss[j].tag = tag } }

\* C1: while every exploder returned scopes that concatenate to its
\* fragment, the builder's scope bytes concatenate to the input, and the
\* built view renders as the input before any action is applied.
C1_Concatenation ==
    /\ (pc = "builder" /\ contract) => Concat(Strings(scopes)) = input
    /\ (pc = "view" /\ contract /\ applied = <<>>) => fmt(scopes) = input

C1_Witness ==
    /\ pc = "view"
    /\ contract
    /\ applied = <<>>
    /\ Len(scopes) >= 3
    /\ \E i \in 1..Len(scopes) : scopes[i].tag = "Out"

\* C2: map changes only the payloads of In scopes: the number of scopes,
\* their order and tags and every Out scope are as build() returned them.
C2_OutPreservation ==
    pc = "view" =>
        /\ Len(scopes) = Len(built)
        /\ \A i \in 1..Len(scopes) :
              /\ scopes[i].tag = built[i].tag
              /\ scopes[i].tag = "Out" => scopes[i] = built[i]
        /\ Concat(Strings(SelectSeq(scopes, LAMBDA s : s.tag = "Out")))
             = Concat(Strings(SelectSeq(built, LAMBDA s : s.tag = "Out")))

C2_Witness ==
    /\ pc = "view"
    /\ Len(applied) = 2
    /\ \E i, j \in 1..Len(scopes) :
          /\ scopes[i].tag = "Out" /\ ~is_empty(scopes[i])
          /\ scopes[j].tag = "In" /\ scopes[j].str # built[j].str

\* C3: no builder and no built view holds a scope whose bytes are empty.
C3_NonEmptyScopes ==
    pc \in {"builder", "view"} =>
        \A i \in 1..Len(scopes) : Len(scopes[i].str) > 0

\* The exploder has been invoked on the whole input, and on nothing else.
OnWholeInput == calls = << In(0, input) >>

RangeIdx == 1..Len(ranges)

NonEmptyInBounds ==
    \A i \in RangeIdx : ranges[i].start < ranges[i].end /\ ranges[i].end <= Len(input)

Disjoint(r1, r2) == r1.end <= r2.start \/ r2.end <= r1.start

PairwiseDisjoint ==
    \A i, j \in RangeIdx : i # j => Disjoint(ranges[i], ranges[j])

OnCharBoundaries ==
    \A i \in RangeIdx :
        is_char_boundary(input, ranges[i].start) /\ is_char_boundary(input, ranges[i].end)

Intervals(ss, tag) ==
    { << ss[i].off, ss[i].off + Len(ss[i].str) >> : i \in { j \in 1..Len(ss) : ss[j].tag = tag } }

Count(ss, tag) == Cardinality({ j \in 1..Len(ss) : ss[j].tag = tag })

\* The non-empty maximal stretches of the input that no range intersects.
Gaps ==
    { g \in ({0} \cup { ranges[i].end : i \in RangeIdx })
            \X ({Len(input)} \cup { ranges[i].start : i \in RangeIdx }) :
        /\ g[1] < g[2]
        /\ \A i \in RangeIdx : ranges[i].end <= g[1] \/ ranges[i].start >= g[2] }

\* The scopes are slices of the input that follow one another from its
\* first byte to its last.
Tiling(ss) ==
    /\ \A i \in 1..Len(ss) : ss[i].str = SubSeq(input, ss[i].off + 1, ss[i].off + Len(ss[i].str))
    /\ \A i \in 1..(Len(ss) - 1) : ss[i].off + Len(ss[i].str) = ss[i + 1].off
    /\ ss # <<>> => ss[1].off = 0 /\ ss[Len(ss)].off + Len(ss[Len(ss)].str) = Len(input)
    /\ ss = <<>> => input = <<>>

\* Each range is exactly one In scope, each non-empty gap exactly one Out
\* scope, nothing else is emitted, and a byte is In exactly when a range
\* covers it.
Converted ==
    /\ pc = "builder"
    /\ Tiling(scopes)
    /\ Intervals(scopes, "In") = { << ranges[i].start, ranges[i].end >> : i \in RangeIdx }
    /\ Count(scopes, "In") = Len(ranges)
    /\ Intervals(scopes, "Out") = Gaps
    /\ Count(scopes, "Out") = Cardinality(Gaps)
    /\ Pos(scopes, "In") = UNION { (ranges[i].start + 1)..ranges[i].end : i \in RangeIdx }

\* C5 as stated: every list of non-empty, in-bounds, pairwise disjoint
\* ranges, in any order, is converted range by range and gap by gap.
C5_AnyInBoundsRanges ==
    (OnWholeInput /\ NonEmptyInBounds /\ PairwiseDisjoint) => Converted

\* C5, amended: every list of non-empty, in-bounds, pairwise disjoint ranges
\* whose ends lie on character boundaries of the fragment, in any order, is
\* converted range by range and gap by gap.
C5_RangeToScope ==
    (OnWholeInput /\ NonEmptyInBounds /\ PairwiseDisjoint /\ OnCharBoundaries) => Converted

C5_Witness ==
    /\ pc = "builder"
    /\ OnWholeInput /\ NonEmptyInBounds /\ PairwiseDisjoint /\ OnCharBoundaries
    /\ Len(ranges) = 2
    /\ ranges[1].start > ranges[2].end
    /\ Len(scopes) = 3

RECURSIVE InsertLongerFirst(_, _)
InsertLongerFirst(sorted, r) ==
    IF sorted = <<>> THEN <<r>>
    ELSE IF \/ Head(sorted).start < r.start
            \/ Head(sorted).start = r.start /\ Head(sorted).end >= r.end
         THEN <<Head(sorted)>> \o InsertLongerFirst(Tail(sorted), r)
         ELSE <<r>> \o sorted

RECURSIVE SortLongerFirst(_)
\* By start ascending, ties broken by the longer range first.
SortLongerFirst(rs) ==
    IF rs = <<>> THEN <<>>
    ELSE InsertLongerFirst(SortLongerFirst(SubSeq(rs, 1, Len(rs) - 1)), rs[Len(rs)])

RECURSIVE DiscardOverlapping(_, _)
\* Of the sorted ranges, those that do not start before the end of the
\* range kept last.
DiscardOverlapping(sorted, prev_end) ==
    IF sorted = <<>> THEN <<>>
    ELSE IF Head(sorted).start < prev_end
         THEN DiscardOverlapping(Tail(sorted), prev_end)
         ELSE <<Head(sorted)>> \o DiscardOverlapping(Tail(sorted), Head(sorted).end)

HasOverlap ==
    \E i, j \in RangeIdx : ranges[i] # ranges[j] /\ ~Disjoint(ranges[i], ranges[j])

\* C4: when two of the returned ranges overlap, the later one in the sort
\* (start ascending, longer first) is discarded and the operation
\* completes, with the kept ranges In and the scopes tiling the fragment.
C4_OverlapDiscarded ==
    (OnWholeInput /\ NonEmptyInBounds /\ OnCharBoundaries /\ HasOverlap) =>
        /\ pc = "builder"
        /\ Tiling(scopes)
        /\ LET kept == DiscardOverlapping(SortLongerFirst(ranges), 0)
           IN  Intervals(scopes, "In") = { << kept[i].start, kept[i].end >> : i \in 1..Len(kept) }

\* The exploder that returns the single scope In(s) for its argument s.
IdentityExploder(ss) == [i \in 1..Len(ss) |-> Returns(<< In(ss[i].off, ss[i].str) >>)]

\* C6: exploding any builder with the identity exploder yields a builder,
\* and after build a view, equal to the one it was applied to.
C6_IdentityIdempotent ==
    pc = "builder" =>
        LET r == explode(scopes, IdentityExploder(scopes))
        IN  /\ ~r.panic
            /\ Content(r.scopes) = Content(scopes)
            /\ Content(build(r.scopes)) = Content(build(scopes))

\* Where the bytes of scope i start in the rendered output (0-based).
RenderedAt(ss, i) == Len(Concat(Strings(SubSeq(ss, 1, i - 1))))

\* Every Out scope's bytes stand in the rendered view as they stand in the
\* input.
OutVerbatim(ss) ==
    \A i \in 1..Len(ss) :
        ss[i].tag = "Out" =>
            SubSeq(fmt(ss), RenderedAt(ss, i) + 1, RenderedAt(ss, i) + Len(ss[i].str))
              = SubSeq(input, ss[i].off + 1, ss[i].off + Len(ss[i].str))

\* The callback was invoked on In scopes of ss only.
CalledOnInOnly(cs, ss) ==
    \A k \in 1..Len(cs) : cs[k].tag = "In" /\ \E i \in 1..Len(ss) : ss[i] = cs[k]

\* C7: a byte that is Out stays Out in every later builder and in the view;
\* no exploder and no action is invoked on it; it is rendered verbatim; and
\* an explode step leaves In only bytes that were In before it.
C7_OutFrozen ==
    [][ /\ (pc = "builder" /\ pc' = "builder") =>
              /\ Pos(scopes, "Out") \subseteq Pos(scopes', "Out")
              /\ Pos(scopes', "In") \subseteq Pos(scopes, "In")
        /\ (pc = "builder" /\ pc' \in {"builder", "panicked"}) =>
              /\ CalledOnInOnly(calls', scopes)
              /\ \A k \in 1..Len(calls') :
                    Pos(<<calls'[k]>>, "In") \cap Pos(scopes, "Out") = {}
        /\ (pc = "builder" /\ pc' = "view") =>
              /\ Pos(scopes', "Out") = Pos(scopes, "Out")
              /\ Pos(scopes', "In") = Pos(scopes, "In")
              /\ OutVerbatim(scopes')
        /\ (pc = "view" /\ pc' = "view") =>
              /\ \A i \in 1..Len(scopes) : scopes[i].tag = "Out" =>
                    i <= Len(scopes') /\ scopes'[i] = scopes[i]
              /\ CalledOnInOnly(calls', scopes)
              /\ OutVerbatim(scopes')
      ]_vars

C7_Witness ==
    /\ pc = "view"
    /\ applied # <<>>
    /\ calls # <<>>
    /\ Len(scopes) >= 3
    /\ \E i, j \in 1..Len(scopes) :
          /\ scopes[i].tag = "Out" /\ ~is_empty(scopes[i])
          /\ scopes[j].tag = "In" /\ scopes[j].str # built[j].str

RECURSIVE Composed(_, _)
\* an(...a2(a1(s))...) for the actions as = <<a1, ..., an>>.
Composed(as, s) ==
    IF as = <<>> THEN s
    ELSE act(as[Len(as)], Composed(SubSeq(as, 1, Len(as) - 1), s))

\* C8: after the maps a1..an, in that order, every In scope that held s at
\* build time holds an(...a1(s)...), the scopes keep their order, and the
\* last action was invoked once per In scope, on the payload the earlier
\* actions had left there.
C8_ActionOrdering ==
    pc = "view" =>
        /\ Len(scopes) = Len(built)
        /\ \A i \in 1..Len(scopes) :
              built[i].tag = "In" =>
                  scopes[i].tag = "In" /\ scopes[i].str = Composed(applied, built[i].str)
        /\ applied # <<>> =>
              Strings(calls) =
                  LET ins == SelectSeq(built, LAMBDA s : s.tag = "In")
                  IN  [k \in 1..Len(ins) |->
                         Composed(SubSeq(applied, 1, Len(applied) - 1), ins[k].str)]

C8_Witness ==
    /\ pc = "view"
    /\ applied = << "append", "append" >>
    /\ Len(scopes) >= 2
    /\ \E i \in 1..Len(scopes) :
          /\ built[i].tag = "In" /\ ~is_empty(built[i])
          /\ scopes[i].str = built[i].str \o <<97, 97>>

\* The bytes of the input, in place, that are not In at build time.
InputWithoutIn ==
    LET keep == { p \in 1..Len(input) : p \notin Pos(built, "In") }
        F[p \in 0..Len(input)] ==
            IF p = 0 THEN <<>>
            ELSE IF p \in keep THEN Append(F[p - 1], input[p]) ELSE F[p - 1]
    IN  F[Len(input)]

\* C10: deleting right after build renders the Out bytes in order, which,
\* while the exploders kept their contract, is the input without its
\* in-scope bytes.
C10_DeleteAfterScoping ==
    (pc = "view" /\ applied = << "delete" >>) =>
        /\ fmt(scopes) = Concat(Strings(SelectSeq(built, LAMBDA s : s.tag = "Out")))
        /\ contract => fmt(scopes) = InputWithoutIn

C10_Witness ==
    /\ pc = "view"
    /\ applied = << "delete" >>
    /\ contract
    /\ Len(built) >= 3
    /\ \E i, j \in 1..Len(built) :
          /\ built[i].tag = "In" /\ ~is_empty(built[i])
          /\ built[j].tag = "Out" /\ ~is_empty(built[j])
    /\ fmt(scopes) # <<>>
    /\ fmt(scopes) # input

\* The captures whose name does not have '_' as its leading character.
KeptCaptures == SelectSeq(captures, LAMBDA c : Head(c.name) # "_")

\* Whether the pattern of query q uses the capture on node n only to anchor
\* the pattern or to feed a predicate that selects another node.
AnchorOnly(q, n) ==
    \/ n = "block.identifier"
    \/ q = "Variables" /\ n = "variable_expr.identifier"

\* C9: a capture contributes its byte range to the In set exactly when the
\* leading character of its whole, possibly dotted, name is not '_': the
\* anchors named '_.declaration' and '_.usage' contribute nothing, the
\* captures named 'name.*' do, also when a predicate uses them.
C9_CaptureNameFilter ==
    OnWholeInput =>
        /\ ranges = [k \in 1..Len(KeptCaptures) |->
                        [start |-> KeptCaptures[k].start, end |-> KeptCaptures[k].end]]
        /\ \A i \in 1..Len(captures) :
              AnchorOnly(query, captures[i].node) <=> Head(captures[i].name) = "_"
        /\ pc = "builder" =>
              Pos(scopes, "In") =
                  UNION { (captures[i].start + 1)..captures[i].end :
                          i \in { j \in 1..Len(captures) : ~AnchorOnly(query, captures[j].node) } }

C9_Witness ==
    /\ pc = "builder"
    /\ OnWholeInput
    /\ query = "ResourceTypes"
    /\ Len(scopes) = 2
    /\ \E i, j \in 1..Len(captures) :
          /\ captures[i].name = << "_" >> \o declaration
          /\ captures[j].name = name \o usage
          /\ Pos(scopes, "In") = (captures[j].start + 1)..captures[j].end
          /\ Pos(scopes, "Out") = (captures[i].start + 1)..captures[i].end

(***************************************************************************)
(* The upper action on its own: SpecUpper                                  *)
(***************************************************************************)
\* The characters of UpperStage's tests: lower case, upper case and caseless,
\* of one to three bytes: a A ! , a-umlaut A-umlaut, sharp s and capital
\* sharp s, U+0149 (upper-cased to two characters), Cyrillic pe in both
\* cases, and a Chinese character.
UpperChars ==
    { <<97>>, <<65>>, <<33>>, <<195, 164>>, <<195, 132>>, <<195, 159>>,
      <<225, 186, 158>>, <<197, 137>>, <<208, 191>>, <<208, 159>>,
      <<228, 189, 160>> }

RECURSIVE UpperStrs(_)
\* Every valid UTF-8 string over UpperChars of at most n bytes.
UpperStrs(n) ==
    {<<>>} \cup UNION { { c \o s : s \in UpperStrs(n - Len(c)) } :
                         c \in { d \in UpperChars : Len(d) <= n } }

\* The view of the whole input, the upper action mapped over it repeatedly.
InitUpper ==
    /\ input \in UpperStrs(MaxLen)
    /\ scopes = new(input)
    /\ pc = "builder"
    /\ contract = TRUE
    /\ calls = <<>>
    /\ built = <<>>
    /\ applied = <<>>
    /\ ranges = <<>>
    /\ query = NoQuery
    /\ captures = <<>>

\* view.map(&|s| Upper.act(s))
MapUpper ==
    /\ pc = "view"
    /\ Len(applied) < MaxMaps
    /\ scopes' = map(scopes, "upper")
    /\ applied' = Append(applied, "upper")
    /\ calls' = map_calls(scopes)
    /\ UNCHANGED <<input, pc, contract, built, ranges, query, captures>>

NextUpper == Build \/ MapUpper

SpecUpper == InitUpper /\ [][NextUpper]_vars

\* The lower-case characters of the blocks char_to_uppercase knows.
is_lowercase(c) ==
    \/ c \in 97..122
    \/ c \in 223..255 /\ c # 247
    \/ c = 329
    \/ c \in 1072..1119

\* s is upper case or has no case: none of its characters is lower case.
UpperOrCaseless(s) == \A i \in 1..Len(chars(s)) : ~is_lowercase(chars(s)[i])

\* C11: the upper action is idempotent. For every input x,
\* substitute(substitute(x)) = substitute(x): the view rendered after any
\* number (one or more) of applications of the action is substitute(input),
\* it holds no lower-case character and a capital sharp s for every sharp s
\* of the input, and an input that is upper case or has no case (the capital
\* sharp s included) is rendered unchanged.
C11_UpperIdempotent ==
    /\ substitute(substitute(input)) = substitute(input)
    /\ (pc = "view" /\ Len(applied) >= 1) =>
          /\ fmt(scopes) = substitute(input)
          /\ UpperOrCaseless(fmt(scopes))
          /\ Len(SelectSeq(chars(fmt(scopes)), LAMBDA c : c = 7838)) =
                Len(SelectSeq(chars(input), LAMBDA c : c \in {223, 7838}))
    /\ (pc = "view" /\ UpperOrCaseless(input)) => fmt(scopes) = input

\* 'a', sharp s upper-cased twice: "A" and the capital sharp s, as after once.
C11_Witness ==
    /\ pc = "view"
    /\ input = <<97, 195, 159>>
    /\ applied = <<"upper", "upper">>
    /\ fmt(scopes) = <<65, 225, 186, 158>>

\* C12: from new(input), after any sequence of explode_from_ranges steps and
\* in the view built from the result, no two neighbouring scopes are both
\* Out.
C12_NoAdjacentOut ==
    pc \in {"builder", "view"} =>
        \A i \in 1..(Len(scopes) - 1) :
            ~(scopes[i].tag = "Out" /\ scopes[i + 1].tag = "Out")

====
